---- MODULE Spec2Model ----
(***************************************************************************)
(* A model of slack_pr_reminder.py: one run of cli(), which fetches the    *)
(* open pull requests of a repository, summarizes each with               *)
(* get_pull_requests_info and posts one batched reminder to Slack.         *)
(*                                                                         *)
(* Representation.  A Python str whose characters matter (a title, an      *)
(* ignore word, the IGNORE_WORDS environment value) is a sequence of       *)
(* one-character strings.  A str that the code only compares or           *)
(* concatenates whole (an email, a slack name) is a TLA+ string.  Instants *)
(* are integers: updatedDate in epoch milliseconds as Bitbucket sends it,  *)
(* a clock reading as epoch seconds and microseconds, as datetime holds it. *)
(***************************************************************************)
EXTENDS Integers, Sequences, FiniteSets, TLC

VARIABLES
    IGNORE_WORDS,   \* module global, line 31
    people_csv,     \* rows of people.csv below its header: [email, slack]
    host,           \* the open pull requests the review host holds
    now,            \* last clock reading: [sec, usec]
    pc,             \* position of cli(): fetch, loop, deliver, done, raised
    pulls,          \* cli's local `pulls`
    idx,            \* position of the for loop in pulls['values']
    attachments,    \* cli's local `attachments`
    users_cache,    \* the lru_cache of match_emails_with_slack_names
    csv_reads,      \* executions of the body of match_emails_with_slack_names
    calls,          \* one record per get_pull_requests_info call of the run
    posts,          \* payloads handed to requests.post by send_to_slack
    arg,            \* argument of a function applied on its own
    ret             \* its return value

vars == <<IGNORE_WORDS, people_csv, host, now, pc, pulls, idx, attachments,
          users_cache, csv_reads, calls, posts, arg, ret>>

-----------------------------------------------------------------------------
(* Bounds *)

MaxPulls == 2
MaxReviewers == 3
MaxTitleLen == 3
MaxEnvLen == 4

-----------------------------------------------------------------------------
(* Program constants *)

PR_LAST_UPDATED == 5*60*60

REPO == ""

PR_URL(repo) == "http://git.domain.net/projects/" \o repo \o "/pull-requests/"

INITIAL_MESSAGE ==
    "\nHi! There's a few open pull requests waiting for your review. \nYou should take a look at:\n"

-----------------------------------------------------------------------------
(* Python values *)

None == [kind |-> "None"]

UpperLetters ==
    <<"A", "B", "C", "D", "E", "F", "G", "H", "I", "J", "K", "L", "M",
      "N", "O", "P", "Q", "R", "S", "T", "U", "V", "W", "X", "Y", "Z">>

LowerLetters ==
    <<"a", "b", "c", "d", "e", "f", "g", "h", "i", "j", "k", "l", "m",
      "n", "o", "p", "q", "r", "s", "t", "u", "v", "w", "x", "y", "z">>

\* str.lower() on one ASCII character: A-Z go to a-z, every other character
\* (lower-case letters, digits, punctuation) is returned as it is
LowerChar(c) ==
    IF \E k \in 1..Len(UpperLetters) : UpperLetters[k] = c
    THEN LowerLetters[CHOOSE k \in 1..Len(UpperLetters) : UpperLetters[k] = c]
    ELSE c

\* str.lower()
Lower(s) == [k \in 1..Len(s) |-> LowerChar(s[k])]

\* the `in` operator on two str: s occurs in t as a contiguous run
StrIn(s, t) ==
    \E off \in 0..(Len(t) - Len(s)) : SubSeq(t, off + 1, off + Len(s)) = s

\* str.split(sep) for a one-character sep: n separators give n+1 pieces
RECURSIVE SplitFrom(_, _, _, _)
SplitFrom(s, sep, k, piece) ==
    IF k > Len(s) THEN <<piece>>
    ELSE IF s[k] = sep THEN <<piece>> \o SplitFrom(s, sep, k + 1, <<>>)
    ELSE SplitFrom(s, sep, k + 1, Append(piece, s[k]))

Split(s, sep) == SplitFrom(s, sep, 1, <<>>)

\* sep.join(parts), each part and the result a sequence of chunks
RECURSIVE Join(_, _)
Join(parts, sep) ==
    IF parts = <<>> THEN <<>>
    ELSE IF Len(parts) = 1 THEN parts[1]
    ELSE parts[1] \o <<sep>> \o Join(Tail(parts), sep)

-----------------------------------------------------------------------------
(* Module level, lines 30-31 *)

\* IGNORE_WORDS = ignore.split(',') if ignore else []
LoadIgnoreWords(ignore) == IF ignore # <<>> THEN Split(ignore, ",") ELSE <<>>

-----------------------------------------------------------------------------
(* is_valid_title, lines 47-53 *)

is_valid_title_case_sensitive(title) ==
    ~ \E k \in 1..Len(IGNORE_WORDS) : StrIn(IGNORE_WORDS[k], title)

is_valid_title(title) ==
    ~ \E k \in 1..Len(IGNORE_WORDS) :
          StrIn(Lower(IGNORE_WORDS[k]), Lower(title))

-----------------------------------------------------------------------------
(* match_emails_with_slack_names, lines 56-77 *)

\* the body: every row with a non-blank email and slack, in file order
RECURSIVE match_emails_with_slack_names(_)
match_emails_with_slack_names(rows) ==
    IF rows = <<>> THEN <<>>
    ELSE LET person == Head(rows)
             rest   == match_emails_with_slack_names(Tail(rows))
         IN  IF person.email # "" /\ person.slack # ""
             THEN <<[slack |-> person.slack, email |-> person.email]>> \o rest
             ELSE rest

lru_cache_never_hits(cache, key) == FALSE

\* functools.lru_cache(maxsize=1): a hit when the one slot holds this key
lru_cache_hit(cache, key) == cache.filled /\ cache.key = key

-----------------------------------------------------------------------------
(* get_reviewers_list_if_not_approved, lines 80-95 *)

RECURSIVE reviewers_loop(_, _, _)
reviewers_loop(reviewers, k, reviewers_names) ==
    IF k > Len(reviewers) THEN [kind |-> "list", val |-> reviewers_names]
    ELSE IF reviewers[k].approved THEN None
    ELSE reviewers_loop(reviewers, k + 1,
                        Append(reviewers_names, reviewers[k].user.emailAddress))

get_reviewers_list_if_last_not_approved(pull) ==
    IF pull.reviewers # <<>> /\ pull.reviewers[Len(pull.reviewers)].approved
    THEN None
    ELSE [kind |-> "list",
          val |-> [k \in 1..Len(pull.reviewers) |->
                       pull.reviewers[k].user.emailAddress]]

RECURSIVE unapproved_only(_, _)
unapproved_only(reviewers, k) ==
    IF k > Len(reviewers) THEN <<>>
    ELSE IF reviewers[k].approved THEN unapproved_only(reviewers, k + 1)
    ELSE <<reviewers[k].user.emailAddress>> \o unapproved_only(reviewers, k + 1)

get_reviewers_list_of_unapproved(pull) ==
    [kind |-> "list", val |-> unapproved_only(pull.reviewers, 1)]

get_reviewers_list_if_not_approved(pull) ==
    reviewers_loop(pull.reviewers, 1, <<>>)

ReviewersNotNone(r) == r.kind = "list"

\* truth value of what get_reviewers_list_if_not_approved returns
ReviewersTruthy(r) == r.kind = "list" /\ r.val # <<>>

-----------------------------------------------------------------------------
(* get_pull_requests_info, lines 98-137 *)

RECURSIVE users_loop_unknown_kept(_, _, _)
users_loop_unknown_kept(reviewer, users, k) ==
    IF k > Len(users)
    THEN IF \E j \in 1..Len(users) : users[j].email = reviewer
         THEN <<>>
         ELSE <<"@" \o reviewer>>
    ELSE IF users[k].email = reviewer
    THEN <<"@" \o users[k].slack>> \o users_loop_unknown_kept(reviewer, users, k + 1)
    ELSE users_loop_unknown_kept(reviewer, users, k + 1)

\* lines 110-112 for one reviewer: a handle for every row of users with the
\* reviewer's email, in the order of users
RECURSIVE users_loop(_, _, _)
users_loop(reviewer, users, k) ==
    IF k > Len(users) THEN <<>>
    ELSE IF users[k].email = reviewer
    THEN <<"@" \o users[k].slack>> \o users_loop(reviewer, users, k + 1)
    ELSE users_loop(reviewer, users, k + 1)

\* lines 109-112: users_slack after the loop over the pending reviewers
RECURSIVE match_reviewers(_, _, _)
match_reviewers(reviewers, users, k) ==
    IF k > Len(reviewers) THEN <<>>
    ELSE users_loop(reviewers[k], users, 1) \o match_reviewers(reviewers, users, k + 1)

\* datetime.fromtimestamp(last_updated/1000).strftime('%Y-%m-%d %H:%M'): the
\* display string names a minute; seconds and milliseconds are dropped
strftime_minute(last_updated) == ToString((last_updated \div 1000) \div 60)

\* datetime.fromtimestamp(last_updated/1000, utc): an instant as whole
\* seconds and microseconds, from epoch milliseconds
fromtimestamp_ms(last_updated) ==
    [sec |-> last_updated \div 1000, usec |-> (last_updated % 1000) * 1000]

\* lines 120-121: datetime - datetime, a timedelta normalized to
\* 0 <= microseconds < 10^6
dif(t, last_updated) ==
    LET u == fromtimestamp_ms(last_updated)
    IN  IF t.usec >= u.usec
        THEN [seconds |-> t.sec - u.sec, microseconds |-> t.usec - u.usec]
        ELSE [seconds |-> t.sec - u.sec - 1,
              microseconds |-> t.usec - u.usec + 1000000]

is_stale_at_threshold(t, last_updated) ==
    dif(t, last_updated).seconds >= PR_LAST_UPDATED

\* line 122: dif.total_seconds() > PR_LAST_UPDATED, where total_seconds() is
\* seconds + microseconds / 10^6
is_stale(t, last_updated) ==
    LET d == dif(t, last_updated)
    IN  \/ d.seconds > PR_LAST_UPDATED
        \/ d.seconds = PR_LAST_UPDATED /\ d.microseconds > 0

\* lines 128-129: ', '.join(map(lambda u: '<{}>'.format(u), users_slack))
format_reviewers(users_slack) ==
    Join([k \in 1..Len(users_slack) |-> <<"<" \o users_slack[k] \o ">">>], ", ")

NoReading == [sec |-> -1, usec |-> 0]

EmptyDict == [kind |-> "dict", keys |-> {}]

\* truth value of what get_pull_requests_info returns
Truthy(lines) == lines.kind = "dict" /\ lines.keys # {}

\* The call on pull_request with `users` the directory line 105 obtained and t
\* the clock reading of line 120.  ret is the returned value, logs the
\* logging.info calls made, evaluated the checks executed, clock the reading
\* taken (NoReading when line 120 is not reached).
get_pull_requests_info(pull_request, users, t) ==
    LET reviewers == get_reviewers_list_if_not_approved(pull_request)
    IN  IF ReviewersTruthy(reviewers)
        THEN LET users_slack == match_reviewers(reviewers.val, users, 1)
             IN  IF is_valid_title(pull_request.title)
                 THEN LET creator      == pull_request.author.user.name
                          pull_url     == PR_URL(REPO) \o ToString(pull_request.id)
                          last_updated == pull_request.updatedDate
                          time         == strftime_minute(last_updated)
                      IN  IF is_stale(t, last_updated)
                          THEN [ret |-> [kind |-> "dict",
                                         keys |-> {"author", "pull_url", "last_updated",
                                                   "title", "reviewers"},
                                         author |-> creator,
                                         pull_url |-> pull_url,
                                         last_updated |-> time,
                                         title |-> pull_request.title,
                                         reviewers |-> format_reviewers(users_slack)],
                                logs |-> <<"Last updated was">>,
                                evaluated |-> <<"approval", "title", "staleness">>,
                                clock |-> t]
                          ELSE [ret |-> None,
                                logs |-> <<"Last updated was recently">>,
                                evaluated |-> <<"approval", "title", "staleness">>,
                                clock |-> t]
                 ELSE [ret |-> None,
                       logs |-> <<"PR title includes ignore words">>,
                       evaluated |-> <<"approval", "title">>,
                       clock |-> NoReading]
        ELSE [ret |-> EmptyDict,
              logs |-> <<>>,
              evaluated |-> <<"approval">>,
              clock |-> NoReading]

-----------------------------------------------------------------------------
(* format_attachment, lines 140-151 *)

format_attachment(pr_details) ==
    [text |-> <<"Reviewers: ">> \o pr_details.reviewers
              \o <<"\n Author: ", pr_details.author,
                   "\nLastUpdated: ", pr_details.last_updated>>,
     title |-> pr_details.title,
     title_link |-> pr_details.pull_url]

-----------------------------------------------------------------------------
(* send_to_slack, lines 165-179 *)

SLACK_CHANNEL == ""

payload(text, channel) ==
    [channel |-> channel,
     username |-> "Pull Request Reminder",
     icon_emoji |-> ":bell:",
     text |-> INITIAL_MESSAGE,
     attachments |-> text]

-----------------------------------------------------------------------------
(* The environment of one run *)

\* when the run starts, epoch seconds
RunStart == 100 * 1000

\* what datetime.now reads during the run
ClockReadings == {[sec |-> RunStart, usec |-> 0], [sec |-> RunStart, usec |-> 1]}

NotBefore(t, u) == t.sec > u.sec \/ (t.sec = u.sec /\ t.usec >= u.usec)

\* updatedDate values, epoch milliseconds: updated one minute, exactly
\* PR_LAST_UPDATED seconds, and PR_LAST_UPDATED + 1 seconds before RunStart
UpdatedDates ==
    {(RunStart - 60) * 1000,
     (RunStart - PR_LAST_UPDATED) * 1000,
     (RunStart - PR_LAST_UPDATED - 1) * 1000}

Reviewer(email, approved) ==
    [user |-> [emailAddress |-> email], approved |-> approved]

ReviewerChoices ==
    {<<>>,
     <<Reviewer("b@x.com", FALSE), Reviewer("a@x.com", FALSE)>>,
     <<Reviewer("a@x.com", FALSE), Reviewer("b@x.com", TRUE)>>,
     <<Reviewer("a@x.com", TRUE), Reviewer("b@x.com", FALSE)>>,
     <<Reviewer("z@x.com", FALSE)>>,
     <<Reviewer("z@x.com", FALSE), Reviewer("a@x.com", FALSE)>>}

Titles == {<<"f", "i", "x">>, <<"W", "i", "P", "-", "1">>}

IgnoreEnvChoices == {<<>>, <<"w", "i", "p">>}

PullShapes ==
    [title : Titles, updatedDate : UpdatedDates, reviewers : ReviewerChoices]

\* a response of the review host: ids are distinct
HostList(shapes) ==
    [k \in 1..Len(shapes) |->
        [id |-> k,
         title |-> shapes[k].title,
         author |-> [user |-> [name |-> "carol"]],
         updatedDate |-> shapes[k].updatedDate,
         reviewers |-> shapes[k].reviewers]]

HostLists ==
    {HostList(shapes) : shapes \in UNION {[1..n -> PullShapes] : n \in 0..MaxPulls}}

\* people.csv: a repeated email, a row with a blank slack name, no z@x.com
PeopleCsv ==
    <<[email |-> "a@x.com", slack |-> "alice"],
      [email |-> "b@x.com", slack |-> ""],
      [email |-> "b@x.com", slack |-> "bob"],
      [email |-> "a@x.com", slack |-> "al"]>>

EmptyCache == [filled |-> FALSE]

-----------------------------------------------------------------------------
(* cli, lines 182-201 *)

attachments_insert_first(list, text) == <<text>> \o list

\* line 198: attachments.append(text)
attachments_append(list, text) == Append(list, text)

InitRun ==
    /\ now \in ClockReadings
    /\ pc = "fetch"
    /\ pulls = [size |-> 0, values |-> <<>>]
    /\ idx = 1
    /\ attachments = <<>>
    /\ users_cache = EmptyCache
    /\ csv_reads = 0
    /\ calls = <<>>
    /\ posts = <<>>
    /\ arg = None
    /\ ret = None

Init ==
    /\ IGNORE_WORDS \in {LoadIgnoreWords(ignore) : ignore \in IgnoreEnvChoices}
    /\ people_csv = PeopleCsv
    /\ host \in HostLists
    /\ InitRun

\* lines 190-193: fetch_open_repo_pulls, then the test of pulls['size']
Fetch ==
    /\ pc = "fetch"
    /\ pulls' = [size |-> Len(host), values |-> host]
    /\ idx' = 1
    /\ pc' = IF Len(host) # 0 THEN "loop" ELSE "deliver"
    /\ UNCHANGED <<IGNORE_WORDS, people_csv, host, now, attachments, users_cache,
                   csv_reads, calls, posts, arg, ret>>

\* lines 194-198: one iteration of the for loop, the call of
\* get_pull_requests_info (with the cached call of line 105) included
ProcessPull ==
    /\ pc = "loop"
    /\ idx <= Len(pulls.values)
    /\ \E t \in ClockReadings :
         /\ NotBefore(t, now)
         /\ LET pull  == pulls.values[idx]
                hit   == lru_cache_hit(users_cache, "people.csv")
                users == IF hit THEN users_cache.value
                         ELSE match_emails_with_slack_names(people_csv)
                out   == get_pull_requests_info(pull, users, t)
                lines == out.ret
            IN  /\ users_cache' = [filled |-> TRUE, key |-> "people.csv", value |-> users]
                /\ csv_reads' = IF hit THEN csv_reads ELSE csv_reads + 1
                /\ now' = IF out.clock = NoReading THEN now ELSE t
                /\ attachments' = IF Truthy(lines)
                                  THEN attachments_append(attachments,
                                                          format_attachment(lines))
                                  ELSE attachments
                /\ calls' = Append(calls, [pull |-> pull, hit |-> hit, users |-> users,
                                           out |-> out, attached |-> Truthy(lines)])
    /\ idx' = idx + 1
    /\ pc' = IF idx = Len(pulls.values) THEN "deliver" ELSE "loop"
    /\ UNCHANGED <<IGNORE_WORDS, people_csv, host, pulls, posts, arg, ret>>

\* lines 199-201 with attachments non-empty: send_to_slack, which raises on a
\* response other than 200
SendToSlack ==
    /\ pc = "deliver"
    /\ attachments # <<>>
    /\ posts' = Append(posts, payload(attachments, SLACK_CHANNEL))
    /\ \E status_code \in {200, 500} :
         pc' = IF status_code = 200 THEN "done" ELSE "raised"
    /\ UNCHANGED <<IGNORE_WORDS, people_csv, host, now, pulls, idx, attachments,
                   users_cache, csv_reads, calls, arg, ret>>

ReturnAfterEmptyPost ==
    /\ pc = "deliver"
    /\ attachments = <<>>
    /\ posts' = Append(posts, payload(attachments, SLACK_CHANNEL))
    /\ pc' = "done"
    /\ UNCHANGED <<IGNORE_WORDS, people_csv, host, now, pulls, idx, attachments,
                   users_cache, csv_reads, calls, arg, ret>>

\* line 199 with attachments empty: cli returns without a delivery
ReturnSilently ==
    /\ pc = "deliver"
    /\ attachments = <<>>
    /\ pc' = "done"
    /\ UNCHANGED <<IGNORE_WORDS, people_csv, host, now, pulls, idx, attachments,
                   users_cache, csv_reads, calls, posts, arg, ret>>

-----------------------------------------------------------------------------
(* Functions applied on their own, to inputs drawn from bounded sets *)

\* all str of at most n characters over an alphabet
StrUpTo(alphabet, n) == UNION {[1..m -> alphabet] : m \in 0..n}

InitApplied ==
    /\ now = [sec |-> RunStart, usec |-> 0]
    /\ pulls = [size |-> 0, values |-> <<>>]
    /\ idx = 1
    /\ attachments = <<>>
    /\ users_cache = EmptyCache
    /\ csv_reads = 0
    /\ calls = <<>>
    /\ posts = <<>>
    /\ people_csv = PeopleCsv
    /\ host = <<>>
    /\ ret = None

\* the value of the IGNORE_WORDS environment variable, and a title
InitTitle ==
    /\ IGNORE_WORDS \in {LoadIgnoreWords(ignore) :
                             ignore \in StrUpTo({"w", "W", "i", ","}, MaxEnvLen)}
    /\ arg \in StrUpTo({"w", "W", "i", "-"}, MaxTitleLen)
    /\ pc = "is_valid_title"
    /\ InitApplied

ApplyIsValidTitle ==
    /\ pc = "is_valid_title"
    /\ ret' = is_valid_title(arg)
    /\ pc' = "returned"
    /\ UNCHANGED <<IGNORE_WORDS, people_csv, host, now, pulls, idx, attachments,
                   users_cache, csv_reads, calls, posts, arg>>

SpecTitle == InitTitle /\ [][ApplyIsValidTitle]_vars

\* a pull request whose reviewers are any sequence of at most MaxReviewers
\* entries
InitApproval ==
    /\ IGNORE_WORDS = <<>>
    /\ arg \in {[reviewers |-> r] :
                   r \in StrUpTo({Reviewer(e, a) : e \in {"a@x.com", "b@x.com"},
                                                    a \in BOOLEAN},
                                 MaxReviewers)}
    /\ pc = "get_reviewers_list_if_not_approved"
    /\ InitApplied

ApplyGetReviewers ==
    /\ pc = "get_reviewers_list_if_not_approved"
    /\ ret' = get_reviewers_list_if_not_approved(arg)
    /\ pc' = "returned"
    /\ UNCHANGED <<IGNORE_WORDS, people_csv, host, now, pulls, idx, attachments,
                   users_cache, csv_reads, calls, posts, arg>>

SpecApproval == InitApproval /\ [][ApplyGetReviewers]_vars

-----------------------------------------------------------------------------
(* A run during which people.csv is rewritten *)

OtherPeopleCsv ==
    <<[email |-> "b@x.com", slack |-> "robert"],
      [email |-> "z@x.com", slack |-> "zed"]>>

CsvFiles == {PeopleCsv, OtherPeopleCsv}

\* requests that differ in their reviewers only
CacheShapes ==
    {s \in PullShapes : /\ s.title = <<"f", "i", "x">>
                         /\ s.updatedDate = (RunStart - PR_LAST_UPDATED - 1) * 1000}

InitCache ==
    /\ IGNORE_WORDS = <<>>
    /\ people_csv \in CsvFiles
    /\ host \in {HostList(shapes) :
                    shapes \in UNION {[1..n -> CacheShapes] : n \in 0..MaxPulls}}
    /\ InitRun

\* the file is rewritten while cli runs
EditPeopleCsv ==
    /\ pc \in {"fetch", "loop"}
    /\ people_csv' \in CsvFiles \ {people_csv}
    /\ UNCHANGED <<IGNORE_WORDS, host, now, pc, pulls, idx, attachments,
                   users_cache, csv_reads, calls, posts, arg, ret>>

Next == Fetch \/ ProcessPull \/ SendToSlack \/ ReturnSilently

Spec == Init /\ [][Next]_vars

NextCache == Fetch \/ ProcessPull \/ SendToSlack \/ ReturnSilently \/ EditPeopleCsv

SpecCache == InitCache /\ [][NextCache]_vars

-----------------------------------------------------------------------------
(* Properties *)

CasePairs ==
    {{"a", "A"}, {"b", "B"}, {"c", "C"}, {"d", "D"}, {"e", "E"}, {"f", "F"},
     {"g", "G"}, {"h", "H"}, {"i", "I"}, {"j", "J"}, {"k", "K"}, {"l", "L"},
     {"m", "M"}, {"n", "N"}, {"o", "O"}, {"p", "P"}, {"q", "Q"}, {"r", "R"},
     {"s", "S"}, {"t", "T"}, {"u", "U"}, {"v", "V"}, {"w", "W"}, {"x", "X"},
     {"y", "Y"}, {"z", "Z"}}

SameLetter(a, b) == a = b \/ {a, b} \in CasePairs

\* word occurs in title at some offset, letter case ignored
OccursIgnoringCase(word, title) ==
    \E off \in 0..(Len(title) - Len(word)) :
        \A j \in 1..Len(word) : SameLetter(word[j], title[off + j])

HasReviewer(pull) == Len(pull.reviewers) >= 1

NoApproval(pull) == \A j \in 1..Len(pull.reviewers) : ~pull.reviewers[j].approved

TitleIgnored(pull) ==
    \E k \in 1..Len(IGNORE_WORDS) : OccursIgnoringCase(IGNORE_WORDS[k], pull.title)

\* a clock reading in whole milliseconds since the epoch
ReadingMs(t) == t.sec * 1000 + t.usec \div 1000

\* the time from updatedDate to the reading t is exactly n seconds
ElapsedExactly(t, updatedDate, n) ==
    ReadingMs(t) - updatedDate = n * 1000 /\ t.usec % 1000 = 0

\* the time from updatedDate to the reading t is more than n seconds
ElapsedOver(t, updatedDate, n) ==
    \/ ReadingMs(t) - updatedDate > n * 1000
    \/ ReadingMs(t) - updatedDate = n * 1000 /\ t.usec % 1000 > 0

Attached == {k \in 1..Len(calls) : calls[k].attached}

IsSeparator(chunk) == chunk = ", "

\* the mentions of a joined reviewers text
Mentions(text) == SelectSeq(text, LAMBDA chunk : ~IsSeparator(chunk))

\* C1: a call yields a record, and the run an attachment for it, only if the
\* request has a reviewer, no reviewer has approved, no ignore word occurs in
\* the title ignoring case, and more than PR_LAST_UPDATED seconds have passed
\* since the last update.
C1_RecordOnlyIfAllFour ==
    /\ Len(attachments) = Cardinality(Attached)
    /\ \A k \in 1..Len(calls) :
         (calls[k].attached \/ Truthy(calls[k].out.ret)) =>
            /\ HasReviewer(calls[k].pull)
            /\ NoApproval(calls[k].pull)
            /\ ~TitleIgnored(calls[k].pull)
            /\ ElapsedOver(calls[k].out.clock, calls[k].pull.updatedDate,
                           PR_LAST_UPDATED)

C1_Witness ==
    \E k \in 1..Len(calls) :
        /\ calls[k].attached
        /\ Len(attachments) >= 1
        /\ IGNORE_WORDS # <<>>

\* C2: get_reviewers_list_if_not_approved returns None when any entry is
\* approved, wherever it stands, and the emails of all entries, in order, for
\* a non-empty sequence without an approved entry.
C2_ApprovalAggregator ==
    pc = "returned" =>
        LET r == arg.reviewers
        IN  /\ (\E j \in 1..Len(r) : r[j].approved) => ret = None
            /\ (r # <<>> /\ \A j \in 1..Len(r) : ~r[j].approved) =>
                  ret = [kind |-> "list",
                         val |-> [j \in 1..Len(r) |-> r[j].user.emailAddress]]

C2_Witness ==
    /\ pc = "returned"
    /\ Len(arg.reviewers) = 3
    /\ ~arg.reviewers[1].approved
    /\ arg.reviewers[2].approved
    /\ ~arg.reviewers[3].approved
    /\ ret = None

\* the attachments of the records the calls of the run returned, in call order
RECURSIVE ProducedFrom(_)
ProducedFrom(k) ==
    IF k > Len(calls) THEN <<>>
    ELSE IF Truthy(calls[k].out.ret)
    THEN <<format_attachment(calls[k].out.ret)>> \o ProducedFrom(k + 1)
    ELSE ProducedFrom(k + 1)

RunEnded == pc \in {"done", "raised"}

\* C3: a run hands at most one payload to Slack; when it has ended it has
\* handed over exactly one, holding every attachment produced, if some request
\* yielded a record, and none otherwise, the host's empty answer included.
C3_OneBatchedDelivery ==
    /\ Len(posts) <= 1
    /\ RunEnded => (Len(posts) = 1 <=> \E k \in 1..Len(calls) : Truthy(calls[k].out.ret))
    /\ Len(posts) = 1 =>
          /\ RunEnded
          /\ Len(calls) = Len(host)
          /\ posts[1].attachments = ProducedFrom(1)
    /\ (RunEnded /\ host = <<>>) => posts = <<>>

C3_Witness ==
    /\ pc = "done"
    /\ Len(posts) = 1
    /\ Len(posts[1].attachments) >= 2
    /\ posts[1].attachments = attachments

PassesApprovalAndTitle(pull) ==
    HasReviewer(pull) /\ NoApproval(pull) /\ ~TitleIgnored(pull)

\* C4: for a request that passes the approval and title checks a record is
\* produced iff more than PR_LAST_UPDATED = 18000 seconds have passed: none at
\* exactly 18000 seconds, one at 18001.
C4_StrictThreshold ==
    /\ PR_LAST_UPDATED = 18000
    /\ \A k \in 1..Len(calls) :
         PassesApprovalAndTitle(calls[k].pull) =>
            LET t == calls[k].out.clock
                u == calls[k].pull.updatedDate
            IN  /\ t \in ClockReadings
                /\ calls[k].attached <=> ElapsedOver(t, u, PR_LAST_UPDATED)
                /\ ElapsedExactly(t, u, PR_LAST_UPDATED) => ~calls[k].attached
                /\ ElapsedExactly(t, u, PR_LAST_UPDATED + 1) => calls[k].attached

C4_Witness ==
    \E k, m \in 1..Len(calls) :
        /\ PassesApprovalAndTitle(calls[k].pull)
        /\ ElapsedExactly(calls[k].out.clock, calls[k].pull.updatedDate, PR_LAST_UPDATED)
        /\ ~calls[k].attached
        /\ PassesApprovalAndTitle(calls[m].pull)
        /\ ElapsedExactly(calls[m].out.clock, calls[m].pull.updatedDate,
                          PR_LAST_UPDATED + 1)
        /\ calls[m].attached

\* C5: is_valid_title returns false iff some ignore word occurs in the title
\* ignoring case, anywhere in it; with no ignore words it returns true.
C5_TitleFilter ==
    pc = "returned" =>
        /\ ret = FALSE <=>
              \E k \in 1..Len(IGNORE_WORDS) : OccursIgnoringCase(IGNORE_WORDS[k], arg)
        /\ IGNORE_WORDS = <<>> => ret = TRUE

C5_Witness ==
    /\ pc = "returned"
    /\ ret = FALSE
    /\ \E k \in 1..Len(IGNORE_WORDS) :
          /\ IGNORE_WORDS[k] # <<>>
          /\ Len(arg) > Len(IGNORE_WORDS[k])
          /\ OccursIgnoringCase(IGNORE_WORDS[k], arg)
    /\ \A k \in 1..Len(IGNORE_WORDS) : ~StrIn(IGNORE_WORDS[k], arg)

Qualifies(call) ==
    /\ PassesApprovalAndTitle(call.pull)
    /\ ElapsedOver(call.out.clock, call.pull.updatedDate, PR_LAST_UPDATED)

\* pairs of a reviewer entry and a directory row with the same email
Matches(call) ==
    {m \in (1..Len(call.pull.reviewers)) \X (1..Len(call.users)) :
        call.users[m[2]].email = call.pull.reviewers[m[1]].user.emailAddress}

\* C6: a request with a reviewer, no approval, an allowed title and stale
\* yields a record and an attachment whatever the directory holds; the record
\* has one mention per matching directory row, so a reviewer the directory
\* does not hold adds none, and no mention at all when no reviewer resolves.
C6_UnresolvedReviewersDropped ==
    \A k \in 1..Len(calls) :
        Qualifies(calls[k]) =>
            /\ calls[k].attached
            /\ Truthy(calls[k].out.ret)
            /\ Len(Mentions(calls[k].out.ret.reviewers)) = Cardinality(Matches(calls[k]))
            /\ Matches(calls[k]) = {} => calls[k].out.ret.reviewers = <<>>

C6_Witness ==
    \E k \in 1..Len(calls) :
        /\ calls[k].pull.reviewers = <<Reviewer("z@x.com", FALSE)>>
        /\ calls[k].attached
        /\ calls[k].out.ret.reviewers = <<>>
        /\ \E j \in 1..Len(attachments) :
              attachments[j].title_link = calls[k].out.ret.pull_url

\* the mention of the first directory row with this email, if any
FirstHandle(users, email) ==
    LET rows == {j \in 1..Len(users) : users[j].email = email}
    IN  IF rows = {} THEN <<>>
        ELSE LET first == CHOOSE j \in rows : \A i \in rows : j <= i
             IN  <<"<@" \o users[first].slack \o ">">>

RECURSIVE FirstHandles(_, _, _)
FirstHandles(users, reviewers, k) ==
    IF k > Len(reviewers) THEN <<>>
    ELSE FirstHandle(users, reviewers[k].user.emailAddress)
         \o FirstHandles(users, reviewers, k + 1)

\* C7: each pending reviewer email adds at most one handle to the record, the
\* handle of the first people.csv row with that email.
C7_OneHandlePerEmail ==
    \A k \in 1..Len(calls) :
        calls[k].attached =>
            Mentions(calls[k].out.ret.reviewers)
                = FirstHandles(calls[k].users, calls[k].pull.reviewers, 1)

\* the host position of the request an attachment links to
SourceOf(attachment) ==
    {k \in 1..Len(host) :
        attachment.title_link = PR_URL(REPO) \o ToString(host[k].id)}

\* the reviewer positions a mention can come from
ReviewerOf(call, mention) ==
    {j \in 1..Len(call.pull.reviewers) :
        \E r \in 1..Len(call.users) :
            /\ call.users[r].email = call.pull.reviewers[j].user.emailAddress
            /\ mention = "<@" \o call.users[r].slack \o ">"}

InHostOrder(list) ==
    /\ \A i \in 1..Len(list) : \E k \in Attached : SourceOf(list[i]) = {k}
    /\ \A i, j \in 1..Len(list) :
          i < j => \A a \in SourceOf(list[i]), b \in SourceOf(list[j]) : a < b

\* C8: requests are processed one by one in the host's order; the attachments,
\* collected and delivered, stand in the order of their requests in the host's
\* list; the mentions of a record stand in the order of their reviewer entries.
C8_OrderPreserved ==
    /\ \A k \in 1..Len(calls) : calls[k].pull = host[k]
    /\ InHostOrder(attachments)
    /\ \A p \in 1..Len(posts) : InHostOrder(posts[p].attachments)
    /\ \A k \in Attached :
          LET ms == Mentions(calls[k].out.ret.reviewers)
          IN  \A i, j \in 1..Len(ms) :
                i < j => \E a \in ReviewerOf(calls[k], ms[i]),
                            b \in ReviewerOf(calls[k], ms[j]) : a <= b

C8_Witness ==
    /\ Len(posts) = 1
    /\ Len(posts[1].attachments) >= 2
    /\ \E k \in Attached :
          /\ calls[k].pull.reviewers[1].user.emailAddress = "b@x.com"
          /\ Len(calls[k].pull.reviewers) = 2
          /\ Mentions(calls[k].out.ret.reviewers)[1] = "<@bob>"
          /\ Len(Mentions(calls[k].out.ret.reviewers)) >= 2

\* C9: the body of match_emails_with_slack_names runs at most once in a run;
\* every later call of get_pull_requests_info is served from the cache, and
\* all calls use the same directory, whatever happens to the file.
C9_DirectoryLoadedOnce ==
    /\ csv_reads <= 1
    /\ csv_reads = 1 <=> calls # <<>>
    /\ \A k \in 1..Len(calls) :
          /\ calls[k].users = calls[1].users
          /\ k > 1 => calls[k].hit

C9_Witness ==
    /\ Len(calls) >= 2
    /\ calls[2].hit
    /\ match_emails_with_slack_names(people_csv) # calls[2].users

Range(seq) == {seq[j] : j \in 1..Len(seq)}

\* C10: without pending reviewers (no reviewer, or an approval) the call returns
\* no record having evaluated neither the title nor the staleness and logged
\* nothing; with an ignored title it returns no record without evaluating the
\* staleness; the staleness is evaluated only with pending reviewers and an
\* allowed title.
C10_ShortCircuitOrder ==
    \A k \in 1..Len(calls) :
        LET c == calls[k]
        IN  /\ (~HasReviewer(c.pull) \/ ~NoApproval(c.pull)) =>
                  /\ ~Truthy(c.out.ret)
                  /\ ~c.attached
                  /\ c.out.evaluated = <<"approval">>
                  /\ c.out.logs = <<>>
                  /\ c.out.clock = NoReading
            /\ (HasReviewer(c.pull) /\ NoApproval(c.pull) /\ TitleIgnored(c.pull)) =>
                  /\ ~Truthy(c.out.ret)
                  /\ ~c.attached
                  /\ c.out.evaluated = <<"approval", "title">>
                  /\ c.out.clock = NoReading
            /\ "staleness" \in Range(c.out.evaluated) =>
                  PassesApprovalAndTitle(c.pull)
            /\ c.pull.reviewers = <<>> => ~c.attached

C10_Witness ==
    \E k \in 1..Len(calls) :
        /\ calls[k].pull.reviewers = <<>>
        /\ ~TitleIgnored(calls[k].pull)
        /\ calls[k].pull.updatedDate = (RunStart - PR_LAST_UPDATED - 1) * 1000
        /\ calls[k].out.evaluated = <<"approval">>
        /\ ~calls[k].attached

====
